---- MODULE Spec2Model ----
(***************************************************************************)
(* Signal aggregation engine of bfma (internal/analysis/aggregator):       *)
(* Analyzer.GenerateSignals fans out one goroutine per tracked symbol,     *)
(* each running generateSignalForSymbol, which fans out five analyzer      *)
(* goroutines, joins them, neutralises failed analyzers, combines the      *)
(* scores into a weighted composite, classifies it, attaches the price,    *)
(* saves the SignalResult and returns it.                                  *)
(*                                                                         *)
(* Numbers.  The code computes in float64.  The model uses integers:       *)
(*   - analyzer scores are integers in -MaxScore..MaxScore;                *)
(*   - a weight w is held as 100*w (0.25 is 25);                           *)
(*   - the composite and the four thresholds are held as 100*value         *)
(*     (a threshold of 60 is 6000), so composite = SUM score*weight;       *)
(*   - a position size is held as 10*value (0.7 is 7).                     *)
(* Timestamps are left out of SignalResult.                                *)
(***************************************************************************)
EXTENDS Integers, Sequences, FiniteSets, TLC

\* number of tracked symbols (a.symbols); the symbols are 1..NumSymbols
NumSymbols == 2
\* largest number of levels per side of an order book the storage returns
MaxLevels == 1
\* Spec: largest number of storage calls of one cycle that fail
MaxFaults == 1
\* analyzers return a signal from -100 to 100
MaxScore == 100

Symbols == 1..NumSymbols

\* the five analyzers, in the order generateSignalForSymbol starts them;
\* the names are the keys of SignalResult.Components
AnalyzerOrder == <<"technical", "orderbook", "funding", "openInterest", "volumeDelta">>

Analyzers == {AnalyzerOrder[i] : i \in 1..Len(AnalyzerOrder)}

NoResult == [Symbol |-> 0]

\* no analyzer function is evaluated on its own
NoFrame == [fn |-> "", pc |-> ""]

VARIABLES
  cfg,           \* a.config: weights and SignalThresholds
  symbols,       \* a.symbols: the tracked symbols, distinct
  ctxCancelled,  \* the cycle's context has been cancelled
  mainpc,        \* position of GenerateSignals
  idx,           \* GenerateSignals: index of the next symbol of the range loop
  wg,            \* GenerateSignals: the outer WaitGroup counter
  mutex,         \* GenerateSignals: 0 when free, else the symbol whose task holds it
  taskpc,        \* per symbol: position of the goroutine of GenerateSignals
  results,       \* GenerateSignals: the results map (NoResult = key absent)
  returned,      \* what GenerateSignals returned: <<map, err>>, or <<>> before
  call,          \* per symbol: the locals of its generateSignalForSymbol call
  saved,         \* storage sink: per symbol, the results handed to SaveSignal
  nfaults,       \* storage calls of the cycle that failed or came back unusable
  crashed,       \* the process has panicked
  frame,         \* an analyzer function on its own: arguments and return value
  storage,       \* the storage collaborator: the market data it holds (a version
                 \* per measurement) and the methods the cycle has called on it
  loop,          \* main: the analysis goroutine, its ticker and the process context
  ui,            \* the TermUI: signals, signalsMutex, and the bubbletea goroutine
  candles,       \* a CandleCollector and the subscriptions it has opened
  poller         \* a FundingRateCollector or OpenInterestCollector and its goroutine

vars == <<cfg, symbols, ctxCancelled, mainpc, idx, wg, mutex, taskpc, results,
          returned, call, saved, nfaults, crashed, frame, storage, loop, ui,
          candles, poller>>

\* what runs beside the aggregation cycle: main's loop, the UI, the collectors
app == <<loop, ui, candles, poller>>

\* before main has built them
NoLoop == [pc |-> ""]

NoUI == [pc |-> ""]

NoCandles == [pc |-> ""]

NoPoller == [pc |-> ""]

AppIdle ==
  /\ loop = NoLoop
  /\ ui = NoUI
  /\ candles = NoCandles
  /\ poller = NoPoller

-----------------------------------------------------------------------------
(* Configuration *)

\* config.AnalysisConfig as far as the aggregator reads it
Config(w, sb, b, s, ss) ==
  [weight |-> w, StrongBuy |-> sb, Buy |-> b, Sell |-> s, StrongSell |-> ss]

\* thresholds 60 / 20 / -20 / -60 and equal weights of 0.2
ExampleConfig ==
  Config([a \in Analyzers |-> 20], 6000, 2000, -2000, -6000)

-----------------------------------------------------------------------------
(* The combiner: main.go 265-315 *)

\* if xErr != nil { xSignal = 0 }, for each of the five analyzers
NeutralizeInverted(sig, err) == [a \in Analyzers |-> IF err[a] THEN sig[a] ELSE 0]

Neutralize(sig, err) == [a \in Analyzers |-> IF err[a] THEN 0 ELSE sig[a]]

Clamp(x, lo, hi) == IF x < lo THEN lo ELSE IF x > hi THEN hi ELSE x

\* the weighted sum, clamped to [-100, 100]
WeightedSignalClamped(sig, c) ==
  Clamp((sig["technical"] * c.weight["technical"]) +
        (sig["orderbook"] * c.weight["orderbook"]) +
        (sig["funding"] * c.weight["funding"]) +
        (sig["openInterest"] * c.weight["openInterest"]) +
        (sig["volumeDelta"] * c.weight["volumeDelta"]),
        -(MaxScore * 100), MaxScore * 100)

\* weightedSignal := technicalSignal*Technical.Weight + ... (no clamping)
WeightedSignal(sig, c) ==
  (sig["technical"] * c.weight["technical"]) +
  (sig["orderbook"] * c.weight["orderbook"]) +
  (sig["funding"] * c.weight["funding"]) +
  (sig["openInterest"] * c.weight["openInterest"]) +
  (sig["volumeDelta"] * c.weight["volumeDelta"])

\* the if / else-if chain on SignalThresholds without its final else: the
\* locals keep their zero values
ClassifyNoElse(w, c) ==
  IF w >= c.StrongBuy THEN [recommendation |-> "STRONG_BUY", positionSize |-> 10]
  ELSE IF w >= c.Buy THEN [recommendation |-> "BUY", positionSize |-> 7]
  ELSE IF w <= c.StrongSell THEN [recommendation |-> "STRONG_SELL", positionSize |-> 10]
  ELSE IF w <= c.Sell THEN [recommendation |-> "SELL", positionSize |-> 7]
  ELSE [recommendation |-> "", positionSize |-> 0]

\* the if / else-if chain on SignalThresholds, sell side tested first
ClassifySellFirst(w, c) ==
  IF w <= c.StrongSell THEN [recommendation |-> "STRONG_SELL", positionSize |-> 10]
  ELSE IF w <= c.Sell THEN [recommendation |-> "SELL", positionSize |-> 7]
  ELSE IF w >= c.StrongBuy THEN [recommendation |-> "STRONG_BUY", positionSize |-> 10]
  ELSE IF w >= c.Buy THEN [recommendation |-> "BUY", positionSize |-> 7]
  ELSE [recommendation |-> "NEUTRAL", positionSize |-> 0]

\* the if / else-if chain on SignalThresholds, the two sell labels exchanged
ClassifySellSwapped(w, c) ==
  IF w >= c.StrongBuy THEN [recommendation |-> "STRONG_BUY", positionSize |-> 10]
  ELSE IF w >= c.Buy THEN [recommendation |-> "BUY", positionSize |-> 7]
  ELSE IF w <= c.StrongSell THEN [recommendation |-> "SELL", positionSize |-> 7]
  ELSE IF w <= c.Sell THEN [recommendation |-> "STRONG_SELL", positionSize |-> 10]
  ELSE [recommendation |-> "NEUTRAL", positionSize |-> 0]

\* the if / else-if chain on SignalThresholds
Classify(w, c) ==
  IF w >= c.StrongBuy THEN [recommendation |-> "STRONG_BUY", positionSize |-> 10]
  ELSE IF w >= c.Buy THEN [recommendation |-> "BUY", positionSize |-> 7]
  ELSE IF w <= c.StrongSell THEN [recommendation |-> "STRONG_SELL", positionSize |-> 10]
  ELSE IF w <= c.Sell THEN [recommendation |-> "SELL", positionSize |-> 7]
  ELSE [recommendation |-> "NEUTRAL", positionSize |-> 0]

-----------------------------------------------------------------------------
(* The storage collaborator, as the aggregator and the analyzers see it *)

\* scores an analyzer computes from a sufficient history
Scores == {-MaxScore, MaxScore}

\* What the storage hands to one of technical / funding / openInterest /
\* volumeDelta: a storage error, a history shorter than the analyzer's minimum
\* (MACDSlow+MACDSignal candles; 1 funding rate; 1 open-interest point and 2
\* candles; Lookback*10 candles), or a history from which the analyzer's
\* sub-signals combine to `score`.
HistoryResponsesOf(S) ==
  {[err |-> TRUE, short |-> FALSE, score |-> 0],
   [err |-> FALSE, short |-> TRUE, score |-> 0]}
  \cup {[err |-> FALSE, short |-> FALSE, score |-> v] : v \in S}

HistoryResponses == HistoryResponsesOf(Scores)

\* parseOrderBookLevels: the parsing is left out: whatever was stored, no levels
parseOrderBookLevels(data) == 0

\* what InfluxDBStorage.GetLatestOrderBook returns for a stored book
InfluxOrderBook ==
  [err |-> FALSE, parseErr |-> FALSE,
   nbids |-> parseOrderBookLevels("bids"), nasks |-> parseOrderBookLevels("asks"),
   score |-> MaxScore]

\* GetLatestOrderBook: an error, or a book with nbids / nasks levels whose
\* price and amount strings parse or not; `score` is what the four order-book
\* metrics combine to when they can be computed
OrderBookResponsesOf(S) ==
  {[err |-> TRUE, parseErr |-> FALSE, nbids |-> 0, nasks |-> 0, score |-> 0]}
  \cup {InfluxOrderBook}
  \cup {[err |-> FALSE, parseErr |-> TRUE, nbids |-> MaxLevels, nasks |-> MaxLevels, score |-> 0]}
  \cup {[err |-> FALSE, parseErr |-> FALSE, nbids |-> nb, nasks |-> na, score |-> v] :
          nb \in 0..MaxLevels, na \in 0..MaxLevels, v \in S}

OrderBookResponses == OrderBookResponsesOf(Scores)

\* Spec: a sufficient history scores MaxScore
CycleHistoryResponses == HistoryResponsesOf({MaxScore})

CycleOrderBookResponses == OrderBookResponsesOf({MaxScore})

Responses(a) == IF a = "orderbook" THEN OrderBookResponses ELSE HistoryResponses

\* GetLatestCandles(ctx, symbol, interval, 1): an error, no candle, or one
\* candle with its close
PriceResponses ==
  {[err |-> TRUE, n |-> 0, close |-> 0],
   [err |-> FALSE, n |-> 0, close |-> 0],
   [err |-> FALSE, n |-> 1, close |-> 5]}

-----------------------------------------------------------------------------
(* The analyzers' Analyze methods: (signal, err), or a panic *)

Failed == [sig |-> 0, err |-> TRUE, panic |-> FALSE]

Scored(v) == [sig |-> v, err |-> FALSE, panic |-> FALSE]

Panicked == [sig |-> 0, err |-> FALSE, panic |-> TRUE]

technicalAnalyze(r) ==
  IF r.err THEN Failed
  ELSE IF r.short THEN Failed
  ELSE Scored(r.score)

fundingAnalyze(r) ==
  IF r.err THEN Failed
  ELSE IF r.short THEN Failed
  ELSE Scored(r.score)

oiAnalyze(r) ==
  IF r.err THEN Failed
  ELSE IF r.short THEN Failed
  ELSE Scored(r.score)

volumeDeltaAnalyze(r) ==
  IF r.err THEN Failed
  ELSE IF r.short THEN Failed
  ELSE Scored(r.score)

\* calculateDepth reads bids[0] and asks[0] without a length check
calculateDepthPanics(nbids, nasks) == nbids = 0 \/ nasks = 0

orderbookAnalyze(r) ==
  IF r.err THEN Failed
  ELSE IF r.parseErr THEN Failed
  ELSE IF calculateDepthPanics(r.nbids, r.nasks) THEN Panicked
  ELSE Scored(r.score)

Analyze(a, r) ==
  CASE a = "technical" -> technicalAnalyze(r)
    [] a = "orderbook" -> orderbookAnalyze(r)
    [] a = "funding" -> fundingAnalyze(r)
    [] a = "openInterest" -> oiAnalyze(r)
    [] a = "volumeDelta" -> volumeDeltaAnalyze(r)

-----------------------------------------------------------------------------
(* The Storage interface, influxdb.go 543-569, as the cycle uses it *)

Measurements == {"candles", "orderBooks", "fundingRates", "openInterest"}

NewStorage == [market |-> [m \in Measurements |-> 0], calls |-> {}]

\* the measurement a Save method writes; the Get methods and SaveSignal
\* (which writes the signals measurement) leave the market data alone
Written(method) ==
  CASE method \in {"SaveCandle", "SaveCandles"} -> {"candles"}
    [] method = "SaveOrderBook" -> {"orderBooks"}
    [] method = "SaveFundingRate" -> {"fundingRates"}
    [] method = "SaveOpenInterest" -> {"openInterest"}
    [] OTHER -> {}

\* the storage after the methods of `methods` have been called on it
Called(st, methods) ==
  [market |-> [m \in Measurements |->
                 IF \E x \in methods : m \in Written(x)
                 THEN st.market[m] + 1 ELSE st.market[m]],
   calls |-> st.calls \cup methods]

\* an analyzer that stores the candles it read
AnalyzerCallsWithSave(a) ==
  CASE a = "technical" -> {"GetCandles", "SaveCandles"}
    [] a = "orderbook" -> {"GetLatestOrderBook"}
    [] a = "funding" -> {"GetFundingRates"}
    [] a = "openInterest" -> {"GetOpenInterest", "GetCandles"}
    [] a = "volumeDelta" -> {"GetCandles"}

\* the storage methods in the text of each analyzer's Analyze
AnalyzerCalls(a) ==
  CASE a = "technical" -> {"GetCandles"}
    [] a = "orderbook" -> {"GetLatestOrderBook"}
    [] a = "funding" -> {"GetFundingRates"}
    [] a = "openInterest" -> {"GetOpenInterest", "GetCandles"}
    [] a = "volumeDelta" -> {"GetCandles"}

\* main.go 319 and 342
PriceCalls == {"GetLatestCandles"}

SaveCalls == {"SaveSignal"}

\* every storage method a whole call of generateSignalForSymbol uses
CallCalls == UNION {AnalyzerCalls(a) : a \in Analyzers} \cup PriceCalls \cup SaveCalls

-----------------------------------------------------------------------------
(* generateSignalForSymbol: main.go 216-347 *)

\* the locals of a call that has not started: Go zero values
NewCall ==
  [pc |-> "idle",
   nlaunched |-> 0,
   apc |-> [a \in Analyzers |-> "idle"],
   wg |-> 0,
   sig |-> [a \in Analyzers |-> 0],
   err |-> [a \in Analyzers |-> FALSE],
   weightedSignal |-> 0,
   recommendation |-> "",
   positionSize |-> 0,
   currentPrice |-> 0,
   result |-> NoResult,
   saveErr |-> FALSE,
   retErr |-> FALSE]

\* var wg sync.WaitGroup, without the wg.Add(5)
EnteredNoAdd(c) == [c EXCEPT !.pc = "go"]

\* var wg sync.WaitGroup; wg.Add(5)
Entered(c) == [c EXCEPT !.pc = "go", !.wg = Len(AnalyzerOrder)]

\* the next `go func() {...}()` statement
Launched(c) ==
  LET a == AnalyzerOrder[c.nlaunched + 1]
  IN [c EXCEPT !.apc[a] = "run",
               !.nlaunched = @ + 1,
               !.pc = IF c.nlaunched + 1 = Len(AnalyzerOrder) THEN "wait" ELSE "go"]

\* one analyzer goroutine: xSignal, xErr = Analyze(...); defer wg.Done()
AnalyzerDone(c, a, out) ==
  [c EXCEPT !.sig[a] = out.sig, !.err[a] = out.err, !.apc[a] = "done", !.wg = @ - 1]

\* wg.Wait() returns when the counter is 0
Joined(c) == [c EXCEPT !.pc = "combine"]

\* 296-315 on the locals
Classified(c, config) ==
  LET k == Classify(c.weightedSignal, config)
  IN [c EXCEPT !.recommendation = k.recommendation,
               !.positionSize = k.positionSize, !.pc = "price"]

\* 265-294 on the locals
Weighed(c, config) ==
  LET sig == Neutralize(c.sig, c.err)
  IN [c EXCEPT !.sig = sig, !.weightedSignal = WeightedSignal(sig, config)]

\* 265-315: neutralise, weigh, classify
Combined(c, config) == Classified(Weighed(c, config), config)

\* 317-322: currentPrice stays 0.0 unless a candle came back
CurrentPrice(pr) == IF ~pr.err /\ pr.n > 0 THEN pr.close ELSE 0

\* 325-339: &models.SignalResult{...}
SignalResult(symbol, c, price) ==
  [Symbol |-> symbol,
   Recommendation |-> c.recommendation,
   SignalStrength |-> c.weightedSignal,
   PositionSize |-> c.positionSize,
   CurrentPrice |-> price,
   Components |-> c.sig]

Priced(symbol, c, pr) ==
  [c EXCEPT !.currentPrice = CurrentPrice(pr),
            !.result = SignalResult(symbol, c, CurrentPrice(pr)),
            !.pc = "save"]

\* a.storage.SaveSignal(ctx, result) left out
SaveSignalSkipped(q, signal) == q

\* 342: a.storage.SaveSignal(ctx, result): the sink receives the result,
\* whatever it then answers
SaveSignal(q, signal) == Append(q, signal)

\* 346: the error generateSignalForSymbol returns is nil, whatever the
\* analyzers (c.err) and SaveSignal (e) returned
ReturnErrorIfSaveFails(c, e) == e

ReturnErrorIfAnalyzerFails(c, e) == \E a \in Analyzers : c.err[a]

ReturnError(c, e) == FALSE

\* 342-346: a SaveSignal error is printed; return result, nil
SaveReturn(c, e) ==
  [c EXCEPT !.saveErr = e, !.retErr = ReturnError(c, e), !.pc = "returned"]

\* the whole call, given what each analyzer returned
AllAnalyzed(c, out) ==
  [c EXCEPT !.nlaunched = Len(AnalyzerOrder),
            !.apc = [a \in Analyzers |-> "done"],
            !.wg = 0,
            !.sig = [a \in Analyzers |-> out[a].sig],
            !.err = [a \in Analyzers |-> out[a].err],
            !.pc = "combine"]

GenerateSignalForSymbol(symbol, c, out, pr, e, config) ==
  SaveReturn(Priced(symbol, Combined(AllAnalyzed(c, out), config), pr), e)

-----------------------------------------------------------------------------
(* Faults of the storage, counted to bound a cycle of Spec *)

HistoryFault(r) == IF r.err \/ r.short THEN 1 ELSE 0

OrderBookFault(r) ==
  IF r.err \/ r.parseErr \/ r.nbids = 0 \/ r.nasks = 0 THEN 1 ELSE 0

PriceFault(pr) == IF pr.err \/ pr.n = 0 THEN 1 ELSE 0

SaveFault(e) == IF e THEN 1 ELSE 0

-----------------------------------------------------------------------------
(* GenerateSignals: main.go 185-213 *)

\* the key the goroutine writes: its parameter sym, not the loop variable
WriteKeyLoopVariable(s) == symbols[IF idx > Len(symbols) THEN Len(symbols) ELSE idx]

WriteKey(s) == s

\* mutex.Lock() blocks while another goroutine holds the mutex
MutexFreeNoLock(m) == TRUE

MutexFree(m) == m = 0

\* wg.Wait() blocks until the counter is 0
WaitDoneNoWait(w) == TRUE

WaitDone(w) == w = 0

\* after `signal, err := a.generateSignalForSymbol(ctx, sym)`:
\* if err != nil { print; return } else lock and write
AfterCall(c) == IF c.retErr THEN "exit" ELSE "lock"

\* for _, symbol := range symbols { wg.Add(1); go func(sym string) {...}(symbol) }
\* ctx is not tested
Launch ==
  /\ ~crashed
  /\ mainpc = "launch"
  /\ idx <= Len(symbols)
  /\ wg' = wg + 1
  /\ taskpc' = [taskpc EXCEPT ![symbols[idx]] = "call"]
  /\ idx' = idx + 1
  /\ UNCHANGED <<app, frame, storage, cfg, symbols, ctxCancelled, mainpc, mutex, results, returned,
                 call, saved, nfaults, crashed>>

\* the range loop is over
LoopEnd ==
  /\ ~crashed
  /\ mainpc = "launch"
  /\ idx > Len(symbols)
  /\ mainpc' = "wait"
  /\ UNCHANGED <<app, frame, storage, cfg, symbols, ctxCancelled, idx, wg, mutex, taskpc, results,
                 returned, call, saved, nfaults, crashed>>

\* signal, err := a.generateSignalForSymbol(ctx, sym), in one step: the call
\* touches only its own locals, the storage and the sink.  At most MaxFaults
\* storage calls of the cycle fail.
TaskCall(s) ==
  /\ ~crashed
  /\ taskpc[s] = "call"
  /\ call[s].pc = "idle"
  /\ \E rt \in CycleHistoryResponses :
       /\ nfaults + HistoryFault(rt) <= MaxFaults
       /\ \E ro \in CycleOrderBookResponses :
            /\ nfaults + HistoryFault(rt) + OrderBookFault(ro) <= MaxFaults
            /\ \E rf \in CycleHistoryResponses, ri \in CycleHistoryResponses,
                  rv \in CycleHistoryResponses, pr \in PriceResponses, e \in BOOLEAN :
                 LET r == [a \in Analyzers |->
                             CASE a = "technical" -> rt
                               [] a = "orderbook" -> ro
                               [] a = "funding" -> rf
                               [] a = "openInterest" -> ri
                               [] a = "volumeDelta" -> rv]
                     out == [a \in Analyzers |-> Analyze(a, r[a])]
                     c == GenerateSignalForSymbol(s, call[s], out, pr, e, cfg)
                     n == nfaults + HistoryFault(rt) + OrderBookFault(ro)
                            + HistoryFault(rf) + HistoryFault(ri) + HistoryFault(rv)
                            + PriceFault(pr) + SaveFault(e)
                 IN /\ n <= MaxFaults
                    /\ nfaults' = n
                    /\ IF \E a \in Analyzers : out[a].panic
                       THEN /\ crashed' = TRUE
                            /\ UNCHANGED <<call, saved, taskpc>>
                            /\ storage' = Called(storage, UNION {AnalyzerCalls(a) : a \in Analyzers})
                       ELSE /\ call' = [call EXCEPT ![s] = c]
                            /\ saved' = [saved EXCEPT ![s] = SaveSignal(@, c.result)]
                            /\ taskpc' = [taskpc EXCEPT ![s] = AfterCall(c)]
                            /\ storage' = Called(storage, CallCalls)
                            /\ UNCHANGED crashed
  /\ UNCHANGED <<app, frame, cfg, symbols, ctxCancelled, mainpc, idx, wg, mutex, results,
                 returned>>

\* mutex.Lock()
TaskLock(s) ==
  /\ ~crashed
  /\ taskpc[s] = "lock"
  /\ MutexFree(mutex)
  /\ mutex' = s
  /\ taskpc' = [taskpc EXCEPT ![s] = "write"]
  /\ UNCHANGED <<app, frame, storage, cfg, symbols, ctxCancelled, mainpc, idx, wg, results, returned,
                 call, saved, nfaults, crashed>>

\* results[sym] = signal
TaskWrite(s) ==
  /\ ~crashed
  /\ taskpc[s] = "write"
  /\ results' = [results EXCEPT ![WriteKey(s)] = call[s].result]
  /\ taskpc' = [taskpc EXCEPT ![s] = "unlock"]
  /\ UNCHANGED <<app, frame, storage, cfg, symbols, ctxCancelled, mainpc, idx, wg, mutex, returned,
                 call, saved, nfaults, crashed>>

\* mutex.Unlock()
TaskUnlock(s) ==
  /\ ~crashed
  /\ taskpc[s] = "unlock"
  /\ mutex' = 0
  /\ taskpc' = [taskpc EXCEPT ![s] = "exit"]
  /\ UNCHANGED <<app, frame, storage, cfg, symbols, ctxCancelled, mainpc, idx, wg, results, returned,
                 call, saved, nfaults, crashed>>

\* defer wg.Done()
TaskDone(s) ==
  /\ ~crashed
  /\ taskpc[s] = "exit"
  /\ wg' = wg - 1
  /\ taskpc' = [taskpc EXCEPT ![s] = "done"]
  /\ UNCHANGED <<app, frame, storage, cfg, symbols, ctxCancelled, mainpc, idx, mutex, results,
                 returned, call, saved, nfaults, crashed>>

\* wg.Wait(); return results, nil
Return ==
  /\ ~crashed
  /\ mainpc = "wait"
  /\ WaitDone(wg)
  /\ mainpc' = "done"
  /\ returned' = <<results, FALSE>>
  /\ UNCHANGED <<app, frame, storage, cfg, symbols, ctxCancelled, idx, wg, mutex, taskpc, results,
                 call, saved, nfaults, crashed>>

\* main: cancel() on SIGINT / SIGTERM, at any moment of a cycle
Cancel ==
  /\ ~crashed
  /\ ~ctxCancelled
  /\ mainpc # "done"
  /\ ctxCancelled' = TRUE
  /\ UNCHANGED <<app, frame, storage, cfg, symbols, mainpc, idx, wg, mutex, taskpc, results, returned,
                 call, saved, nfaults, crashed>>

-----------------------------------------------------------------------------
(* One call of generateSignalForSymbol, goroutine by goroutine *)

\* entry: var wg sync.WaitGroup; wg.Add(5)
SymEnter(s) ==
  /\ ~crashed
  /\ taskpc[s] = "call"
  /\ call[s].pc = "idle"
  /\ call' = [call EXCEPT ![s] = Entered(@)]
  /\ UNCHANGED <<app, frame, storage, cfg, symbols, ctxCancelled, mainpc, idx, wg, mutex, taskpc,
                 results, returned, saved, nfaults, crashed>>

\* the five go statements, in program order; ctx is handed on, never tested
SymGo(s) ==
  /\ ~crashed
  /\ call[s].pc = "go"
  /\ call' = [call EXCEPT ![s] = Launched(@)]
  /\ UNCHANGED <<app, frame, storage, cfg, symbols, ctxCancelled, mainpc, idx, wg, mutex, taskpc,
                 results, returned, saved, nfaults, crashed>>

\* an analyzer goroutine runs Analyze against the storage; a panic in it is
\* not recovered and ends the process
SymAnalyze(s, a) ==
  /\ ~crashed
  /\ call[s].apc[a] = "run"
  /\ storage' = Called(storage, AnalyzerCalls(a))
  /\ \E r \in Responses(a) :
       LET out == Analyze(a, r)
       IN IF out.panic
          THEN /\ crashed' = TRUE
               /\ UNCHANGED call
          ELSE /\ call' = [call EXCEPT ![s] = AnalyzerDone(@, a, out)]
               /\ UNCHANGED crashed
  /\ UNCHANGED <<app, frame, cfg, symbols, ctxCancelled, mainpc, idx, wg, mutex, taskpc,
                 results, returned, saved, nfaults>>

\* wg.Wait()
SymJoin(s) ==
  /\ ~crashed
  /\ call[s].pc = "wait"
  /\ WaitDone(call[s].wg)
  /\ call' = [call EXCEPT ![s] = Joined(@)]
  /\ UNCHANGED <<app, frame, storage, cfg, symbols, ctxCancelled, mainpc, idx, wg, mutex, taskpc,
                 results, returned, saved, nfaults, crashed>>

SymCombine(s) ==
  /\ ~crashed
  /\ call[s].pc = "combine"
  /\ call' = [call EXCEPT ![s] = Combined(@, cfg)]
  /\ UNCHANGED <<app, frame, storage, cfg, symbols, ctxCancelled, mainpc, idx, wg, mutex, taskpc,
                 results, returned, saved, nfaults, crashed>>

SymPrice(s) ==
  /\ ~crashed
  /\ call[s].pc = "price"
  /\ storage' = Called(storage, PriceCalls)
  /\ \E pr \in PriceResponses : call' = [call EXCEPT ![s] = Priced(s, @, pr)]
  /\ UNCHANGED <<app, frame, cfg, symbols, ctxCancelled, mainpc, idx, wg, mutex, taskpc,
                 results, returned, saved, nfaults, crashed>>

SymSave(s) ==
  /\ ~crashed
  /\ call[s].pc = "save"
  /\ storage' = Called(storage, SaveCalls)
  /\ saved' = [saved EXCEPT ![s] = SaveSignal(@, call[s].result)]
  /\ \E e \in BOOLEAN : call' = [call EXCEPT ![s] = SaveReturn(@, e)]
  /\ UNCHANGED <<app, frame, cfg, symbols, ctxCancelled, mainpc, idx, wg, mutex, taskpc,
                 results, returned, nfaults, crashed>>

\* back in the goroutine of GenerateSignals: if err != nil { return }
SymReturned(s) ==
  /\ ~crashed
  /\ taskpc[s] = "call"
  /\ call[s].pc = "returned"
  /\ taskpc' = [taskpc EXCEPT ![s] = AfterCall(call[s])]
  /\ UNCHANGED <<app, frame, storage, cfg, symbols, ctxCancelled, mainpc, idx, wg, mutex, results,
                 returned, call, saved, nfaults, crashed>>

\* 296-315 alone
SymClassify(s) ==
  /\ ~crashed
  /\ call[s].pc = "classify"
  /\ call' = [call EXCEPT ![s] = Classified(@, cfg)]
  /\ UNCHANGED <<app, frame, storage, cfg, symbols, ctxCancelled, mainpc, idx, wg, mutex, taskpc,
                 results, returned, saved, nfaults, crashed>>

-----------------------------------------------------------------------------
(* Specifications *)

\* the tracked symbols: the first k of 1..NumSymbols
SymbolLists == {[i \in 1..k |-> i] : k \in 0..NumSymbols}

\* the state GenerateSignals starts in
Start(c, syms) ==
  /\ cfg = c
  /\ symbols = syms
  /\ mainpc = "launch"
  /\ idx = 1
  /\ wg = 0
  /\ mutex = 0
  /\ taskpc = [s \in Symbols |-> "idle"]
  /\ results = [s \in Symbols |-> NoResult]
  /\ returned = <<>>
  /\ call = [s \in Symbols |-> NewCall]
  /\ saved = [s \in Symbols |-> <<>>]
  /\ nfaults = 0
  /\ crashed = FALSE
  /\ storage = NewStorage
  /\ AppIdle
  /\ frame = NoFrame

\* Spec: a cycle of GenerateSignals over the tracked symbols, each call of
\* generateSignalForSymbol in one step
Init ==
  /\ ctxCancelled \in BOOLEAN
  /\ \E syms \in SymbolLists : Start(ExampleConfig, syms)

Next ==
  \/ Launch
  \/ LoopEnd
  \/ \E s \in Symbols : TaskCall(s)
  \/ \E s \in Symbols : TaskLock(s)
  \/ \E s \in Symbols : TaskWrite(s)
  \/ \E s \in Symbols : TaskUnlock(s)
  \/ \E s \in Symbols : TaskDone(s)
  \/ Return
  \/ Cancel

Spec == Init /\ [][Next]_vars

\* the Go scheduler runs every goroutine that can take a step, and a storage
\* call that is made returns: some enabled step is eventually taken
SpecFair == Init /\ [][Next]_vars /\ WF_vars(Next)

\* SpecSymbol: a cycle over one tracked symbol, its call of
\* generateSignalForSymbol taken goroutine by goroutine, the storage free to
\* answer every call in every way
OverweightConfig ==
  Config([a \in Analyzers |-> 100], 6000, 2000, -2000, -6000)

\* Sell above Buy: the thresholds overlap
OverlapConfig ==
  Config([a \in Analyzers |-> 20], 6000, -2000, 2000, -6000)

SymbolConfigs == {ExampleConfig, OverweightConfig, OverlapConfig}

InitSymbol ==
  /\ ctxCancelled \in BOOLEAN
  /\ \E c \in SymbolConfigs : Start(c, <<1>>)

NextSymbol ==
  \/ Launch
  \/ LoopEnd
  \/ \E s \in Symbols : SymEnter(s)
  \/ \E s \in Symbols : SymGo(s)
  \/ \E s \in Symbols, a \in Analyzers : SymAnalyze(s, a)
  \/ \E s \in Symbols : SymJoin(s)
  \/ \E s \in Symbols : SymCombine(s)
  \/ \E s \in Symbols : SymPrice(s)
  \/ \E s \in Symbols : SymSave(s)
  \/ \E s \in Symbols : SymReturned(s)
  \/ \E s \in Symbols : TaskLock(s)
  \/ \E s \in Symbols : TaskWrite(s)
  \/ \E s \in Symbols : TaskUnlock(s)
  \/ \E s \in Symbols : TaskDone(s)
  \/ Return
  \/ Cancel

SpecSymbol == InitSymbol /\ [][NextSymbol]_vars

\* the state of a cycle over the symbol 1 whose call has joined its five
\* analyzers, which returned `out`
AtCombine(c, out, pc, w) ==
  /\ cfg = c
  /\ symbols = <<1>>
  /\ ctxCancelled = FALSE
  /\ mainpc = "wait"
  /\ idx = 2
  /\ wg = 1
  /\ mutex = 0
  /\ taskpc = [s \in Symbols |-> IF s = 1 THEN "call" ELSE "idle"]
  /\ results = [s \in Symbols |-> NoResult]
  /\ returned = <<>>
  /\ call = [s \in Symbols |->
               IF s = 1
               THEN [AllAnalyzed(NewCall, out) EXCEPT !.pc = pc, !.weightedSignal = w]
               ELSE NewCall]
  /\ saved = [s \in Symbols |-> <<>>]
  /\ nfaults = 0
  /\ crashed = FALSE
  /\ storage = NewStorage
  /\ AppIdle
  /\ frame = NoFrame

\* SpecCombine: the combiner (265-315) on every vector of analyzer returns
\* and on weights and thresholds drawn from small sets
WeightVectors ==
  {[a \in Analyzers |-> 20],
   [a \in Analyzers |-> 100],
   [a \in Analyzers |-> IF a \in {"technical", "orderbook"} THEN 25 ELSE 0]}

SmallThresholds == {-2000, 0, 2000}

CombineConfigs ==
  {Config(w, sb, b, s, ss) :
     w \in WeightVectors, sb \in SmallThresholds, b \in SmallThresholds,
     s \in SmallThresholds, ss \in SmallThresholds}

AnalyzerReturns == {Failed} \cup {Scored(v) : v \in Scores}

InitCombine ==
  \E c \in CombineConfigs, out \in [Analyzers -> AnalyzerReturns] :
    AtCombine(c, out, "combine", 0)

NextCombine ==
  \/ \E s \in Symbols : SymCombine(s)
  \/ \E s \in Symbols : SymPrice(s)

SpecCombine == InitCombine /\ [][NextCombine]_vars

\* SpecClassify: the classifier (296-315) on composites and thresholds drawn
\* from small sets, ordered or not
Thresholds == {-6000, -2000, 0, 2000, 6000}

Composites == {-7000, -6000, -3000, -2000, -1, 0, 1, 2000, 2500, 6000, 7000}

ClassifyConfigs ==
  {Config([a \in Analyzers |-> 20], sb, b, s, ss) :
     sb \in Thresholds, b \in Thresholds, s \in Thresholds, ss \in Thresholds}

InitClassify ==
  \E c \in ClassifyConfigs, w \in Composites :
    AtCombine(c, [a \in Analyzers |-> Scored(0)], "classify", w)

NextClassify == \E s \in Symbols : SymClassify(s)

SpecClassify == InitClassify /\ [][NextClassify]_vars

-----------------------------------------------------------------------------
(* The analyzers' functions, each on its own.  A frame is a call of one
   function: [fn, pc, arg, ret], pc "call" before it runs and "ret" after.
   Exact arithmetic: a float64 result is a fraction [num, den], den > 0. *)

Abs(x) == IF x < 0 THEN -x ELSE x

Min(x, y) == IF x < y THEN x ELSE y

Frac(n, d) == [num |-> n, den |-> d]

Call(fn, arg) == [fn |-> fn, pc |-> "call", arg |-> arg, ret |-> <<>>]

Returned(f, ret) == [f EXCEPT !.pc = "ret", !.ret = ret]

\* a cycle that has not started, beside the frame f
NoCycle(f) ==
  /\ cfg = ExampleConfig
  /\ symbols = <<>>
  /\ ctxCancelled = FALSE
  /\ mainpc = "launch"
  /\ idx = 1
  /\ wg = 0
  /\ mutex = 0
  /\ taskpc = [s \in Symbols |-> "idle"]
  /\ results = [s \in Symbols |-> NoResult]
  /\ returned = <<>>
  /\ call = [s \in Symbols |-> NewCall]
  /\ saved = [s \in Symbols |-> <<>>]
  /\ nfaults = 0
  /\ crashed = FALSE
  /\ storage = NewStorage
  /\ frame = f

\* an analyzer function on its own
Alone(f) == NoCycle(f) /\ AppIdle

\* the variables of a cycle, which no analyzer function touches
cycle == <<cfg, symbols, ctxCancelled, mainpc, idx, wg, mutex, taskpc, results,
           returned, call, saved, nfaults, crashed, storage>>

RECURSIVE SumY(_, _)
\* sum_y over values[1..i]
SumY(values, i) == IF i = 0 THEN 0 ELSE SumY(values, i - 1) + values[i]

RECURSIVE SumXY(_, _)
\* sum_xy over values[1..i]; Go's index x is i - 1
SumXY(values, i) ==
  IF i = 0 THEN 0 ELSE SumXY(values, i - 1) + ((i - 1) * values[i])

RECURSIVE SumX(_)
SumX(i) == IF i = 0 THEN 0 ELSE SumX(i - 1) + (i - 1)

RECURSIVE SumXX(_)
SumXX(i) == IF i = 0 THEN 0 ELSE SumXX(i - 1) + ((i - 1) * (i - 1))

\* calculateSlope without the len(values) < 2 guard
calculateSlopeUnguarded(values) ==
  LET n == Len(values)
      num == (n * SumXY(values, n)) - (SumX(n) * SumY(values, n))
      den == (n * SumXX(n)) - (SumX(n) * SumX(n))
  IN Frac(num, den)

\* calculateSlope (funding/analyzer.go 159-185, oianalysis/analyzer.go
\* 203-229, the same text): 0 for fewer than 2 values, else
\* (n*sum_xy - sum_x*sum_y) / (n*sum_xx - sum_x*sum_x), 0 if that is NaN
calculateSlope(values) ==
  LET n == Len(values)
      num == (n * SumXY(values, n)) - (SumX(n) * SumY(values, n))
      den == (n * SumXX(n)) - (SumX(n) * SumX(n))
  IN IF n < 2 THEN Frac(0, 1)
     ELSE IF den = 0 /\ num = 0 THEN Frac(0, 1)
     ELSE Frac(num, den)

(* funding.Analyzer: funding/analyzer.go.  Rates and ExtremeThreshold are
   in units of 0.0001, so 0.01 is 100 and 0.001 is 10. *)

MaxRates == 3

\* parsed funding rates; 75 is the 0.75% of the comment at line 65
RateValues == {-300, -50, 0, 50, 300}

\* a stored rate: parseRate succeeds with v, or fails
RateEntries == {[ok |-> TRUE, v |-> v] : v \in RateValues} \cup {[ok |-> FALSE, v |-> 0]}

ExtremeThresholds == {0, 75, 500}

RECURSIVE Parsed(_)
\* the values of the entries parseRate accepts, in order
Parsed(rates) ==
  IF rates = <<>> THEN <<>>
  ELSE IF rates[1].ok THEN <<rates[1].v>> \o Parsed(Tail(rates))
  ELSE Parsed(Tail(rates))

\* analyzeExtremes, 53-84
analyzeExtremes(rates, extremeThreshold) ==
  LET currentRate == rates[1].v
  IN IF Len(rates) = 0 THEN 0
     ELSE IF ~rates[1].ok THEN 0
     ELSE IF currentRate > extremeThreshold THEN -Min(currentRate, 100)
     ELSE IF currentRate < -extremeThreshold THEN Min(Abs(currentRate), 100)
     ELSE -currentRate

\* analyzeTrend, 87-124: the signal times slope.den
analyzeTrend(rates, slope) ==
  IF Len(rates) < 3 THEN 0
  ELSE IF Len(Parsed(rates)) < 3 THEN 0
  ELSE IF slope.num > 0 THEN -Min(10 * slope.num, 100 * slope.den)
  ELSE Min(10 * Abs(slope.num), 100 * slope.den)

\* analyzeChange, 127-156
analyzeChange(rates) ==
  IF Len(rates) < 2 THEN 0
  ELSE IF ~rates[1].ok \/ ~rates[2].ok THEN 0
  ELSE LET change == rates[1].v - rates[2].v
       IN IF change > 0 THEN -Min(10 * change, 100)
          ELSE Min(10 * Abs(change), 100)

\* the result of an analyzer's Analyze: an error, or a score num / den
AnalyzeError == [err |-> TRUE, num |-> 0, den |-> 1]

AnalyzeScore(n, d) == [err |-> FALSE, num |-> n, den |-> d]

\* Analyze, 28-50: extreme*0.4 + trend*0.4 + change*0.2
fundingAnalyzeRates(arg) ==
  LET slope == calculateSlope(Parsed(arg.rates))
      d == IF Len(Parsed(arg.rates)) < 3 THEN 1 ELSE slope.den
  IN IF arg.err THEN AnalyzeError
     ELSE IF Len(arg.rates) = 0 THEN AnalyzeError
     ELSE AnalyzeScore(
            (4 * analyzeExtremes(arg.rates, arg.ExtremeThreshold) * d)
            + (4 * analyzeTrend(arg.rates, [slope EXCEPT !.den = d]))
            + (2 * analyzeChange(arg.rates) * d),
            10 * d)

\* a call on any history of up to MaxRates rates
FundingCalls ==
  \E n \in 0..MaxRates :
    \E e \in BOOLEAN, r \in [1..n -> RateEntries], x \in ExtremeThresholds :
      Alone(Call("funding.Analyze", [err |-> e, rates |-> r, ExtremeThreshold |-> x]))

FundingAnalyze ==
  /\ frame.fn = "funding.Analyze"
  /\ frame.pc = "call"
  /\ frame' = Returned(frame, fundingAnalyzeRates(frame.arg))
  /\ UNCHANGED <<cycle, app>>

(* oianalysis.Analyzer.Analyze: oianalysis/analyzer.go 28-60, by the lengths
   of the two histories.  With fewer than 2 points analyzeOIChange (64),
   analyzeOIvsPriceDivergence (108) and analyzeOITrend (168) all return 0;
   with more, the weighted sum of the three is the argument `score`. *)

MaxPoints == 3

oiAnalyzeLengths(arg) ==
  IF arg.oiErr THEN AnalyzeError
  ELSE IF arg.nOI = 0 THEN AnalyzeError
  ELSE IF arg.candleErr THEN AnalyzeError
  ELSE IF arg.nCandles < 2 THEN AnalyzeError
  ELSE IF arg.nOI < 2 THEN AnalyzeScore(0, 1)
  ELSE AnalyzeScore(arg.score, 1)

OICalls ==
  \E e \in BOOLEAN, n \in 0..MaxPoints, f \in BOOLEAN, m \in 0..MaxPoints,
     v \in {-MaxScore, 0, MaxScore} :
    Alone(Call("oianalysis.Analyze",
               [oiErr |-> e, nOI |-> n, candleErr |-> f, nCandles |-> m, score |-> v]))

OIAnalyze ==
  /\ frame.fn = "oianalysis.Analyze"
  /\ frame.pc = "call"
  /\ frame' = Returned(frame, oiAnalyzeLengths(frame.arg))
  /\ UNCHANGED <<cycle, app>>

(* technical.Analyzer.calculateRSI: technical/analyzer.go 68-90, from the
   last RSI value on.  lastRSI is in ticks, RsiTicks to one RSI point; the
   signal is a fraction over 30 * RsiTicks. *)

RsiTicks == 10

RsiMax == 100

\* the neutral band mapped to 0
rsiSignalFlatBand(lastRSI) ==
  IF lastRSI < 30 * RsiTicks THEN Frac(100 * ((30 * RsiTicks) - lastRSI), 30 * RsiTicks)
  ELSE IF lastRSI > 70 * RsiTicks
       THEN Frac(-100 * (lastRSI - (70 * RsiTicks)), 30 * RsiTicks)
  ELSE Frac(0, 30 * RsiTicks)

\* 78-87: 100*(30-rsi)/30, -100*(rsi-70)/30, (50-rsi)*2
rsiSignal(lastRSI) ==
  IF lastRSI < 30 * RsiTicks THEN Frac(100 * ((30 * RsiTicks) - lastRSI), 30 * RsiTicks)
  ELSE IF lastRSI > 70 * RsiTicks
       THEN Frac(-100 * (lastRSI - (70 * RsiTicks)), 30 * RsiTicks)
  ELSE Frac(60 * ((50 * RsiTicks) - lastRSI), 30 * RsiTicks)

calculateRSI(arg) == rsiSignal(arg.lastRSI)

\* a first evaluation, at any RSI of 0..100
RSICalls ==
  \E r \in 0..(RsiMax * RsiTicks) :
    Alone(Call("calculateRSI", [lastRSI |-> r, hasPrev |-> FALSE, prev |-> Frac(0, 1)]))

CalculateRSI ==
  /\ frame.fn = "calculateRSI"
  /\ frame.pc = "call"
  /\ frame' = Returned(frame, calculateRSI(frame.arg))
  /\ UNCHANGED <<cycle, app>>

\* the next evaluation: the RSI has moved up by one tick; prev is the
\* signal of the evaluation before
RSITick ==
  /\ frame.fn = "calculateRSI"
  /\ frame.pc = "ret"
  /\ ~frame.arg.hasPrev
  /\ frame.arg.lastRSI < RsiMax * RsiTicks
  /\ frame' = Call("calculateRSI",
                   [lastRSI |-> frame.arg.lastRSI + 1, hasPrev |-> TRUE,
                    prev |-> frame.ret])
  /\ UNCHANGED <<cycle, app>>

(* calculateSlope on its own, both copies *)

MaxValues == 5

SlopeValues == {-2, 1, 2, 3, 4, 5}

\* the copy of oianalysis/analyzer.go 203-229
oiCalculateSlope(values) ==
  LET n == Len(values)
      sum_x == SumX(n)
      sum_y == SumY(values, n)
      sum_xy == SumXY(values, n)
      sum_xx == SumXX(n)
  IN IF n < 2 THEN Frac(0, 1)
     ELSE IF (n * sum_xx) - (sum_x * sum_x) = 0 /\ (n * sum_xy) - (sum_x * sum_y) = 0
          THEN Frac(0, 1)
     ELSE Frac((n * sum_xy) - (sum_x * sum_y), (n * sum_xx) - (sum_x * sum_x))

bothSlopes(arg) ==
  [funding |-> calculateSlope(arg.values), oi |-> oiCalculateSlope(arg.values)]

SlopeCalls ==
  \E n \in 0..MaxValues :
    \E v \in [1..n -> SlopeValues] : Alone(Call("calculateSlope", [values |-> v]))

CalculateSlope ==
  /\ frame.fn = "calculateSlope"
  /\ frame.pc = "call"
  /\ frame' = Returned(frame, bothSlopes(frame.arg))
  /\ UNCHANGED <<cycle, app>>

(* orderbook.Analyzer.calculateImbalance: oianalysis/analyzer.go 345-377 *)

MaxAmounts == 2

\* OrderLevel.Amount of a level
Amounts == {0, 30, 40, 70}

ImbalanceThresholds == {0, 5, 40}

RECURSIVE TotalVolume(_)
\* for _, bid := range bids { totalBidVolume += bid.Amount }
TotalVolume(levels) ==
  IF levels = <<>> THEN 0 ELSE levels[1] + TotalVolume(Tail(levels))

\* calculateImbalance suppressing an imbalance equal to the threshold too
calculateImbalanceInclusive(arg) ==
  LET totalBidVolume == TotalVolume(arg.bids)
      totalAskVolume == TotalVolume(arg.asks)
      totalVolume == totalBidVolume + totalAskVolume
  IN IF totalBidVolume = 0 /\ totalAskVolume = 0 THEN Frac(0, 1)
     ELSE IF 100 * Abs(totalBidVolume - totalAskVolume)
               <= arg.ImbalanceThreshold * totalVolume
          THEN Frac(0, 1)
     ELSE Frac(100 * (totalBidVolume - totalAskVolume), totalVolume)

\* (bidRatio - askRatio) * 100, 0 if its absolute value is below the threshold
calculateImbalance(arg) ==
  LET totalBidVolume == TotalVolume(arg.bids)
      totalAskVolume == TotalVolume(arg.asks)
      totalVolume == totalBidVolume + totalAskVolume
  IN IF totalBidVolume = 0 /\ totalAskVolume = 0 THEN Frac(0, 1)
     ELSE IF 100 * Abs(totalBidVolume - totalAskVolume)
               < arg.ImbalanceThreshold * totalVolume
          THEN Frac(0, 1)
     ELSE Frac(100 * (totalBidVolume - totalAskVolume), totalVolume)

ImbalanceCalls ==
  \E n \in 0..MaxAmounts, m \in 0..MaxAmounts :
    \E b \in [1..n -> Amounts], a \in [1..m -> Amounts], x \in ImbalanceThresholds :
      Alone(Call("calculateImbalance",
                 [bids |-> b, asks |-> a, ImbalanceThreshold |-> x]))

CalculateImbalance ==
  /\ frame.fn = "calculateImbalance"
  /\ frame.pc = "call"
  /\ frame' = Returned(frame, calculateImbalance(frame.arg))
  /\ UNCHANGED <<cycle, app>>

(* technical.Analyzer.calculateATR: technical/analyzer.go 285-321, from the
   last ATR and the last close on.  atrPercent = lastATR / lastClose * 100
   is compared by cross-multiplication; with lastClose = 0 it is +Inf
   (lastATR > 0) or NaN (lastATR = 0), and every comparison with NaN is false. *)

MaxATR == 60

\* last closes: none, and one that makes lastATR tenths of a percent
Closes == {0, 1000}

\* atrPercent > x/10
PercentAbove(lastATR, lastClose, x) ==
  IF lastClose = 0 THEN lastATR > 0 ELSE lastATR * 1000 > x * lastClose

\* atrPercent < x/10
PercentBelow(lastATR, lastClose, x) ==
  IF lastClose = 0 THEN FALSE ELSE lastATR * 1000 < x * lastClose

\* the bands on the scale of the other sub-signals
atrSignalFullScale(lastATR, lastClose) ==
  IF PercentAbove(lastATR, lastClose, 50) THEN -100
  ELSE IF PercentAbove(lastATR, lastClose, 30) THEN -50
  ELSE IF PercentBelow(lastATR, lastClose, 5) THEN 100
  ELSE IF PercentBelow(lastATR, lastClose, 10) THEN 50
  ELSE 0

\* 303-318
atrSignal(lastATR, lastClose) ==
  IF PercentAbove(lastATR, lastClose, 50) THEN -20
  ELSE IF PercentAbove(lastATR, lastClose, 30) THEN -10
  ELSE IF PercentBelow(lastATR, lastClose, 5) THEN 20
  ELSE IF PercentBelow(lastATR, lastClose, 10) THEN 10
  ELSE 0

calculateATR(arg) == atrSignal(arg.lastATR, arg.lastClose)

ATRCalls ==
  \E v \in 0..MaxATR, c \in Closes :
    Alone(Call("calculateATR", [lastATR |-> v, lastClose |-> c]))

CalculateATR ==
  /\ frame.fn = "calculateATR"
  /\ frame.pc = "call"
  /\ frame' = Returned(frame, calculateATR(frame.arg))
  /\ UNCHANGED <<cycle, app>>

(* funding.Analyzer: the trend and change sub-signals side by side, as
   Analyze computes them from one history (41-42) *)

\* trendSignal as a fraction, and changeSignal
fundingTrendAndChange(arg) ==
  LET slope == calculateSlope(Parsed(arg.rates))
  IN [trend |-> Frac(analyzeTrend(arg.rates, slope), slope.den),
      change |-> analyzeChange(arg.rates)]

FundingTrendCalls ==
  \E n \in 0..MaxRates :
    \E r \in [1..n -> RateEntries] :
      Alone(Call("funding.trendAndChange", [rates |-> r]))

FundingTrendAndChange ==
  /\ frame.fn = "funding.trendAndChange"
  /\ frame.pc = "call"
  /\ frame' = Returned(frame, fundingTrendAndChange(frame.arg))
  /\ UNCHANGED <<cycle, app>>

(* technical.Analyzer.Analyze, technical/analyzer.go 26-65, as far as the
   order of the candles goes, beside the price lookup of main.go 317-322.
   GetCandles and GetLatestCandles return the stored candles newest first
   (influxdb.go 115, sort desc), so candles[1] here is the most recent. *)

MaxCandles == 3

CloseValues == {5, 6, 7}

\* GetLatestCandles(ctx, symbol, interval, 1) on the stored candles
GetLatestCandle(closes) ==
  [err |-> FALSE, n |-> Min(1, Len(closes)),
   close |-> IF Len(closes) = 0 THEN 0 ELSE closes[1]]

\* closes[len(closes)-1] of calculateBollingerBands (147), calculateIchimoku
\* (204) and calculateATR (290), closes[i] = candles[i].Close (43-48)
technicalLastClose(arg) ==
  IF Len(arg.closes) < arg.MACDSlow + arg.MACDSignal
  THEN [err |-> TRUE, lastClose |-> 0,
        currentPrice |-> CurrentPrice(GetLatestCandle(arg.closes))]
  ELSE [err |-> FALSE, lastClose |-> arg.closes[Len(arg.closes)],
        currentPrice |-> CurrentPrice(GetLatestCandle(arg.closes))]

TechnicalCalls ==
  \E n \in 0..MaxCandles :
    \E c \in [1..n -> CloseValues], slow \in 1..2 :
      Alone(Call("technical.lastClose", [closes |-> c, MACDSlow |-> slow, MACDSignal |-> 1]))

TechnicalLastClose ==
  /\ frame.fn = "technical.lastClose"
  /\ frame.pc = "call"
  /\ frame' = Returned(frame, technicalLastClose(frame.arg))
  /\ UNCHANGED <<cycle, app>>

(* oianalysis.Analyzer.analyzeOIChange: oianalysis/analyzer.go 63-104.  data
   is newest first; an entry is a stored open interest, which parseOI accepts
   with value v (contracts, not negative) or rejects.  changeThreshold is in
   percent.  percentChange / changeThreshold is the fraction
   (current - prev) * 100 / (prev * changeThreshold). *)

OIValues == {0, 50, 90, 96, 100, 104, 105, 200}

OIEntries == {[ok |-> TRUE, v |-> v] : v \in OIValues} \cup {[ok |-> FALSE, v |-> 0]}

ChangeThresholds == {5, 50}

\* math.Min(x, 1.0) on a fraction with a positive denominator
MinOne(x) == IF x.num < x.den THEN x ELSE Frac(1, 1)

\* 96 and 100 without math.Min: the signal proportional to the change
oiChangeSignalUncapped(ratio, full) == Frac(ratio.num * full, ratio.den)

\* 96 and 100: math.Min(ratio, 1.0) * full
oiChangeSignal(ratio, full) ==
  LET m == MinOne(ratio) IN Frac(m.num * full, m.den)

analyzeOIChange(data, changeThreshold) ==
  IF Len(data) < 2 THEN Frac(0, 1)
  ELSE IF ~data[1].ok \/ ~data[2].ok THEN Frac(0, 1)
  ELSE LET currentOI == data[1].v
           prevOI == data[2].v
       IN IF prevOI = 0 THEN Frac(0, 1)
          ELSE IF Abs(currentOI - prevOI) * 100 < changeThreshold * prevOI
            THEN Frac(0, 1)
          ELSE IF currentOI - prevOI > 0
            THEN oiChangeSignal(Frac((currentOI - prevOI) * 100,
                                     prevOI * changeThreshold), 50)
          ELSE oiChangeSignal(Frac(Abs(currentOI - prevOI) * 100,
                                   prevOI * changeThreshold), -20)

OIChangeCalls ==
  \E n \in 0..MaxPoints : \E d \in [1..n -> OIEntries] : \E th \in ChangeThresholds :
    Alone(Call("analyzeOIChange", [data |-> d, changeThreshold |-> th]))

AnalyzeOIChange ==
  /\ frame.fn = "analyzeOIChange"
  /\ frame.pc = "call"
  /\ frame' = Returned(frame, analyzeOIChange(frame.arg.data, frame.arg.changeThreshold))
  /\ UNCHANGED <<cycle, app>>

(* SpecAnalyzers: every analyzer function on every argument of its set *)

InitAnalyzers ==
  \/ FundingCalls
  \/ OICalls
  \/ RSICalls
  \/ SlopeCalls
  \/ ImbalanceCalls
  \/ ATRCalls
  \/ FundingTrendCalls
  \/ TechnicalCalls
  \/ OIChangeCalls

NextAnalyzers ==
  \/ FundingAnalyze
  \/ OIAnalyze
  \/ CalculateRSI
  \/ RSITick
  \/ CalculateSlope
  \/ CalculateImbalance
  \/ CalculateATR
  \/ FundingTrendAndChange
  \/ TechnicalLastClose
  \/ AnalyzeOIChange

SpecAnalyzers == InitAnalyzers /\ [][NextAnalyzers]_vars

-----------------------------------------------------------------------------
(* main: the analysis goroutine (main.go 73-90), cancel() (95-101), and the
   TermUI it updates (termui.go 141-150) with the bubbletea goroutine that
   calls Update (279-303) and View (305-329).  A map of signals is named by
   the number of the cycle that returned it, 0 for the empty map of
   NewTermUI (96). *)

MaxCycles == 2

\* 212: GenerateSignals returns results, nil
GenerateSignalsErrors == {FALSE}

NewLoop ==
  [pc |-> "select",     \* select / cycle / update / write / returned
   tick |-> FALSE,      \* a value waits in ticker.C
   cancelled |-> FALSE, \* ctx.Done() is closed
   cycle |-> 0,         \* cycles started so far
   inflight |-> 0,      \* calls of GenerateSignals that have not returned
   handed |-> TRUE,     \* the last result returned without error is with the UI
   err |-> FALSE]       \* the error the last cycle returned

NewTermUI ==
  [signals |-> 0,       \* ui.signals
   writer |-> FALSE,    \* signalsMutex is write-locked
   readers |-> 0,       \* read locks held on signalsMutex
   tea |-> "idle",      \* idle / down / rlock / view: the bubbletea goroutine
   selected |-> 0,      \* what line 288 read
   rendered |-> 0]      \* what View rendered last

\* time.Ticker: the channel holds one value, a tick finding it full is dropped
Tick ==
  /\ loop.pc \notin {"", "returned"}
  /\ ~loop.tick
  /\ loop' = [loop EXCEPT !.tick = TRUE]
  /\ UNCHANGED <<cycle, frame, ui, candles, poller>>

\* 95-101: a signal arrives and main calls cancel()
MainCancel ==
  /\ loop.pc # ""
  /\ ~loop.cancelled
  /\ loop' = [loop EXCEPT !.cancelled = TRUE]
  /\ UNCHANGED <<cycle, frame, ui, candles, poller>>

\* the select of 78: the cases that can proceed, one of which is chosen
SelectReady(l) ==
  (IF l.tick THEN {"tick"} ELSE {}) \cup (IF l.cancelled THEN {"done"} ELSE {})

\* case <-ticker.C: GenerateSignals is called
SelectTick ==
  /\ loop.pc = "select"
  /\ "tick" \in SelectReady(loop)
  /\ loop.cycle < MaxCycles
  /\ loop' = [loop EXCEPT !.pc = "cycle", !.tick = FALSE, !.cycle = @ + 1,
                          !.inflight = @ + 1]
  /\ UNCHANGED <<cycle, frame, ui, candles, poller>>

\* case <-ctx.Done(): return
SelectDone ==
  /\ loop.pc = "select"
  /\ "done" \in SelectReady(loop)
  /\ loop' = [loop EXCEPT !.pc = "returned"]
  /\ UNCHANGED <<cycle, frame, ui, candles, poller>>

\* 80-84: GenerateSignals returns; on an error the loop continues
CycleReturns ==
  /\ loop.pc = "cycle"
  /\ \E err \in GenerateSignalsErrors :
       loop' = [loop EXCEPT !.pc = IF err THEN "select" ELSE "update",
                            !.inflight = @ - 1, !.err = err,
                            !.handed = err]
  /\ UNCHANGED <<cycle, frame, ui, candles, poller>>

\* UpdateSignals, 142: signalsMutex.Lock()
UpdateSignalsLock ==
  /\ loop.pc = "update"
  /\ ~ui.writer /\ ui.readers = 0
  /\ ui' = [ui EXCEPT !.writer = TRUE]
  /\ loop' = [loop EXCEPT !.pc = "write"]
  /\ UNCHANGED <<cycle, frame, candles, poller>>

\* UpdateSignals, 145-150: ui.signals = signals, and the deferred Unlock
UpdateSignals ==
  /\ loop.pc = "write"
  /\ ui' = [ui EXCEPT !.signals = loop.cycle, !.writer = FALSE]
  /\ loop' = [loop EXCEPT !.pc = "select", !.handed = TRUE]
  /\ UNCHANGED <<cycle, frame, candles, poller>>

\* Update, 287: the "down" key arrives
KeyDown ==
  /\ ui.tea = "idle"
  /\ ui' = [ui EXCEPT !.tea = "down"]
  /\ UNCHANGED <<cycle, frame, loop, candles, poller>>

\* Update, 288-289: getSymbolsFromSignals(m.ui.signals), no lock taken
UpdateDown ==
  /\ ui.tea = "down"
  /\ ui' = [ui EXCEPT !.selected = ui.signals, !.tea = "rlock"]
  /\ UNCHANGED <<cycle, frame, loop, candles, poller>>

\* Update, 285, 294-299: a message whose handling does not touch the signals
OtherMsg ==
  /\ ui.tea = "idle"
  /\ ui' = [ui EXCEPT !.tea = "rlock"]
  /\ UNCHANGED <<cycle, frame, loop, candles, poller>>

\* View, 306: signalsMutex.RLock()
ViewRLock ==
  /\ ui.tea = "rlock"
  /\ ~ui.writer
  /\ ui' = [ui EXCEPT !.readers = @ + 1, !.tea = "view"]
  /\ UNCHANGED <<cycle, frame, loop, candles, poller>>

\* View, 313 and the deferred RUnlock of 308
View ==
  /\ ui.tea = "view"
  /\ ui' = [ui EXCEPT !.rendered = ui.signals, !.readers = @ - 1, !.tea = "idle"]
  /\ UNCHANGED <<cycle, frame, loop, candles, poller>>

InitMain ==
  /\ NoCycle(NoFrame)
  /\ loop = NewLoop
  /\ ui = NewTermUI
  /\ candles = NoCandles
  /\ poller = NoPoller

NextMain ==
  \/ Tick
  \/ MainCancel
  \/ SelectTick
  \/ SelectDone
  \/ CycleReturns
  \/ UpdateSignalsLock
  \/ UpdateSignals
  \/ KeyDown
  \/ UpdateDown
  \/ OtherMsg
  \/ ViewRLock
  \/ View

SpecMain == InitMain /\ [][NextMain]_vars

-----------------------------------------------------------------------------
(* The data collectors of exchange/binance.go.  A CandleCollector over the
   symbols 1..n: Start (212-265) loads the history and subscribes symbol by
   symbol, Stop (267-271) closes c.stopC.  A FundingRateCollector (380-426)
   or OpenInterestCollector (448-494): Start runs a first round and starts
   the ticker and the polling goroutine, Stop stops the ticker and closes
   c.done. *)

MaxStops == 2

MaxRounds == 2

NewCandleCollector(n) ==
  [pc |-> "new",                          \* new / started / failed
   n |-> n,                               \* len(c.symbols)
   stopC |-> 0,                           \* c.stopC: 0 for nil, else the symbol
                                          \* whose subscription it stops
   subs |-> [s \in Symbols |-> "none"],   \* none / serving / stopSignalled
   stopped |-> FALSE,                     \* Stop has been called after Start
   stops |-> 0,                           \* calls of Stop
   panicked |-> FALSE]

\* 257: c.doneC, c.stopC, err = futures.WsKlineServe(...) for each symbol in
\* turn: after the subscriptions to 1..j, c.stopC is what the last call
\* returned
Subscribed(c, j, last) ==
  [c EXCEPT !.subs = [s \in Symbols |-> IF s <= j THEN "serving" ELSE "none"],
            !.stopC = last]

\* CandleCollector.Start: an error of GetKlines or SaveCandles (216-223)
\* returns before any subscription; an error of WsKlineServe for symbol j + 1
\* (258-260) returns with 1..j subscribed and c.stopC nil; else all n are
\* subscribed
CandleStart ==
  /\ candles.pc = "new"
  /\ ~candles.panicked
  /\ \/ candles' = [candles EXCEPT !.pc = "failed"]
     \/ \E j \in 0..(candles.n - 1) :
          candles' = [Subscribed(candles, j, 0) EXCEPT !.pc = "failed"]
     \/ candles' = [Subscribed(candles, candles.n, candles.n) EXCEPT !.pc = "started"]
  /\ UNCHANGED <<cycle, frame, loop, ui, poller>>

\* close(c.stopC): the subscription it belongs to is told to stop; closing a
\* closed channel panics
Closed(c) ==
  IF c.subs[c.stopC] = "stopSignalled" THEN [c EXCEPT !.panicked = TRUE]
  ELSE [c EXCEPT !.subs[c.stopC] = "stopSignalled"]

\* CandleCollector.Stop, 267-271
CandleStop ==
  /\ candles.pc # ""
  /\ ~candles.panicked
  /\ candles.stops < MaxStops
  /\ LET c == [candles EXCEPT !.stops = @ + 1, !.stopped = @ \/ candles.pc = "started"]
     IN candles' = IF c.stopC # 0 THEN Closed(c) ELSE c
  /\ UNCHANGED <<cycle, frame, loop, ui, poller>>

PollerKinds == {"funding", "openInterest"}

NewPoller(kind) ==
  [kind |-> kind,
   pc |-> "new",          \* new / failed / select / round / returned
   ticker |-> "nil",      \* c.ticker: nil / running / stopped
   tick |-> FALSE,        \* a value waits in c.ticker.C
   done |-> FALSE,        \* c.done is closed
   startedStop |-> FALSE, \* Stop has been called after Start
   further |-> 0,         \* polling rounds begun after such a Stop
   stops |-> 0,           \* calls of Stop
   panicked |-> FALSE]

\* Start, 380-418 and 448-486: the first round fails and Start returns, or
\* the ticker and the goroutine are started
PollStart ==
  /\ poller.pc = "new"
  /\ ~poller.panicked
  /\ \/ poller' = [poller EXCEPT !.pc = "failed"]
     \/ poller' = [poller EXCEPT !.pc = "select", !.ticker = "running"]
  /\ UNCHANGED <<cycle, frame, loop, ui, candles>>

\* the running ticker puts a value in its channel, which holds one
PollTick ==
  /\ poller.ticker = "running"
  /\ ~poller.panicked
  /\ ~poller.tick
  /\ poller' = [poller EXCEPT !.tick = TRUE]
  /\ UNCHANGED <<cycle, frame, loop, ui, candles>>

\* 399 / 467: case <-c.ticker.C
PollSelectTick ==
  /\ poller.pc = "select"
  /\ ~poller.panicked
  /\ poller.tick
  /\ poller.further < MaxRounds
  /\ poller' = [poller EXCEPT !.pc = "round", !.tick = FALSE,
                              !.further = IF poller.startedStop THEN @ + 1 ELSE @]
  /\ UNCHANGED <<cycle, frame, loop, ui, candles>>

\* 400-410 / 468-478: the round over the symbols, every call returning
PollRound ==
  /\ poller.pc = "round"
  /\ ~poller.panicked
  /\ poller' = [poller EXCEPT !.pc = "select"]
  /\ UNCHANGED <<cycle, frame, loop, ui, candles>>

\* 411-412 / 479-480: case <-c.done: return
PollSelectDone ==
  /\ poller.pc = "select"
  /\ ~poller.panicked
  /\ poller.done
  /\ poller' = [poller EXCEPT !.pc = "returned"]
  /\ UNCHANGED <<cycle, frame, loop, ui, candles>>

\* Stop without c.ticker.Stop(): only close(c.done)
PollStoppedTickerRunning(p, stale) ==
  IF p.done THEN [p EXCEPT !.panicked = TRUE]
  ELSE [p EXCEPT !.done = TRUE, !.startedStop = TRUE]

\* 423-424 / 491-492: c.ticker.Stop(); close(c.done).  Stop does not drain
\* the channel: a value already in it stays (stale) or is dropped, depending
\* on the runtime's timer channels; closing a closed channel panics
PollStopped(p, stale) ==
  IF p.done THEN [p EXCEPT !.ticker = "stopped", !.panicked = TRUE]
  ELSE [p EXCEPT !.ticker = "stopped", !.tick = p.tick /\ stale, !.done = TRUE,
                 !.startedStop = TRUE]

\* Stop, 421-426 / 489-494
PollStop ==
  /\ poller.pc # ""
  /\ ~poller.panicked
  /\ poller.stops < MaxStops
  /\ \E stale \in BOOLEAN :
       LET p == [poller EXCEPT !.stops = @ + 1]
       IN poller' = IF p.ticker # "nil" THEN PollStopped(p, stale) ELSE p
  /\ UNCHANGED <<cycle, frame, loop, ui, candles>>

InitCollectors ==
  /\ NoCycle(NoFrame)
  /\ loop = NoLoop
  /\ ui = NoUI
  /\ \E n \in 0..NumSymbols : candles = NewCandleCollector(n)
  /\ \E kind \in PollerKinds : poller = NewPoller(kind)

NextCollectors ==
  \/ CandleStart
  \/ CandleStop
  \/ PollStart
  \/ PollTick
  \/ PollSelectTick
  \/ PollRound
  \/ PollSelectDone
  \/ PollStop

\* the polling goroutine, once started, is scheduled
PollGoroutine == PollSelectTick \/ PollRound \/ PollSelectDone

SpecCollectors == InitCollectors /\ [][NextCollectors]_vars /\ WF_vars(PollGoroutine)

-----------------------------------------------------------------------------
(* Claims *)

Tracked == {symbols[i] : i \in 1..Len(symbols)}

AllFailed(s) == \A a \in Analyzers : call[s].err[a]

SignsOrdered(c) == c.StrongBuy > 0 /\ c.Buy > 0 /\ c.Sell < 0 /\ c.StrongSell < 0

NeutralResult(r) ==
  r.SignalStrength = 0 /\ r.Recommendation = "NEUTRAL" /\ r.PositionSize = 0

\* C2 as stated: if all five analyzers returned an error, the SignalResult has
\* composite 0, recommendation neutral and position size 0.0, for every
\* weights and thresholds.
C2_AllFailedNeutralAnyThresholds ==
  \A s \in Symbols :
    (call[s].pc = "save" /\ AllFailed(s)) => NeutralResult(call[s].result)

\* C2 amended: if all five analyzers returned an error, the composite is 0
\* for every weights and thresholds, and the result is neutral with size 0.0
\* when StrongBuy and Buy are above 0 and Sell and StrongSell below 0.
C2_AllFailedNeutral ==
  \A s \in Symbols :
    (call[s].pc = "save" /\ AllFailed(s)) =>
      /\ call[s].result.SignalStrength = 0
      /\ \A a \in Analyzers : call[s].result.Components[a] = 0
      /\ SignsOrdered(cfg) => NeutralResult(call[s].result)

C2_Witness ==
  \E s \in Symbols :
    /\ call[s].pc = "save"
    /\ AllFailed(s)
    /\ SignsOrdered(cfg)
    /\ \E a \in Analyzers : cfg.weight[a] > 0
    /\ NeutralResult(call[s].result)

Is(c, rec, size) == c.recommendation = rec /\ c.positionSize = size

\* C3: after classification the recommendation and size are given by the
\* first matching condition of: composite >= StrongBuy (strong buy, 1.0),
\* >= Buy (buy, 0.7), <= StrongSell (strong sell, 1.0), <= Sell (sell, 0.7),
\* else neutral, 0.0; for every thresholds, ordered or not, so a composite
\* meeting a buy-side and a sell-side condition is on the buy side; with
\* 60/20/-20/-60 the composites 60, 25, 0, -30, -70 give strong buy, buy,
\* neutral, sell, strong sell.
C3_FirstMatchChain ==
  \A s \in Symbols :
    call[s].pc = "price" =>
      LET w == call[s].weightedSignal
          c == call[s]
      IN /\ w >= cfg.StrongBuy => Is(c, "STRONG_BUY", 10)
         /\ (w < cfg.StrongBuy /\ w >= cfg.Buy) => Is(c, "BUY", 7)
         /\ (w < cfg.StrongBuy /\ w < cfg.Buy /\ w <= cfg.StrongSell)
              => Is(c, "STRONG_SELL", 10)
         /\ (w < cfg.StrongBuy /\ w < cfg.Buy /\ w > cfg.StrongSell /\ w <= cfg.Sell)
              => Is(c, "SELL", 7)
         /\ (w < cfg.StrongBuy /\ w < cfg.Buy /\ w > cfg.StrongSell /\ w > cfg.Sell)
              => Is(c, "NEUTRAL", 0)
         /\ (cfg.StrongBuy = 6000 /\ cfg.Buy = 2000 /\ cfg.Sell = -2000
               /\ cfg.StrongSell = -6000) =>
              /\ w = 6000 => Is(c, "STRONG_BUY", 10)
              /\ w = 2500 => Is(c, "BUY", 7)
              /\ w = 0 => Is(c, "NEUTRAL", 0)
              /\ w = -3000 => Is(c, "SELL", 7)
              /\ w = -7000 => Is(c, "STRONG_SELL", 10)

\* a composite that meets Buy and StrongSell at once has been classified buy
C3_Witness ==
  \E s \in Symbols :
    /\ call[s].pc = "price"
    /\ call[s].weightedSignal >= cfg.Buy
    /\ call[s].weightedSignal < cfg.StrongBuy
    /\ call[s].weightedSignal <= cfg.StrongSell
    /\ Is(call[s], "BUY", 7)

Running(s) == taskpc[s] \in {"call", "lock", "write", "unlock", "exit"}

\* C4: when GenerateSignals has returned, no task of the cycle is running,
\* every tracked symbol's task has finished, and the map is still the map
\* that was returned: the cycle writes nothing to it after the return.
C4_JoinBarrier ==
  mainpc = "done" =>
    /\ \A s \in Symbols : ~Running(s)
    /\ \A s \in Tracked : taskpc[s] = "done"
    /\ returned[1] = results

C4_Witness ==
  /\ mainpc = "done"
  /\ Len(symbols) = NumSymbols
  /\ \A s \in Tracked : taskpc[s] = "done" /\ results[s] # NoResult

\* C5: a task that is about to write the results map, or has written it and
\* not yet unlocked, holds the mutex; so at most one task is there at a time.
C5_WritesUnderMutex ==
  /\ \A s \in Symbols : taskpc[s] \in {"write", "unlock"} => mutex = s
  /\ Cardinality({s \in Symbols : taskpc[s] \in {"write", "unlock"}}) <= 1

\* one task is about to write while another waits for the mutex
C5_Witness ==
  \E s \in Symbols, u \in Symbols :
    s # u /\ taskpc[s] = "write" /\ mutex = s /\ taskpc[u] = "lock"

\* C6: when SaveSignal returned an error for a symbol's result, the call
\* returns that result with a nil error, and once GenerateSignals has
\* returned the symbol's entry is that result and the returned error is nil.
C6_SaveErrorNotPropagated ==
  \A s \in Symbols :
    (call[s].pc = "returned" /\ call[s].saveErr) =>
      /\ ~call[s].retErr
      /\ call[s].result.Symbol = s
      /\ saved[s] = <<call[s].result>>
      /\ mainpc = "done" => (returned[1][s] = call[s].result /\ returned[2] = FALSE)

C6_Witness ==
  /\ mainpc = "done"
  /\ \E s \in Tracked : call[s].saveErr /\ returned[1][s] = call[s].result

Contribution(c, a) == IF c.err[a] THEN 0 ELSE c.sig[a] * cfg.weight[a]

\* C7: the step from the joined analyzers to the composite records 0 for
\* every analyzer that returned an error and leaves the score of every other
\* analyzer as returned; the composite is the sum of score * weight over the
\* analyzers that returned no error; and the SignalResult built next records
\* exactly these component scores.
C7_FailedAnalyzerCountsZero ==
  [][\A s \in Symbols :
       /\ (call[s].pc = "combine" /\ call'[s].pc = "price") =>
            /\ \A a \in Analyzers :
                 call'[s].sig[a] = IF call[s].err[a] THEN 0 ELSE call[s].sig[a]
            /\ call'[s].weightedSignal =
                 Contribution(call[s], "technical") + Contribution(call[s], "orderbook")
                 + Contribution(call[s], "funding") + Contribution(call[s], "openInterest")
                 + Contribution(call[s], "volumeDelta")
       /\ (call[s].pc = "price" /\ call'[s].pc = "save") =>
            /\ call'[s].result.Components = call[s].sig
            /\ \A a \in Analyzers : call[s].err[a] => call'[s].result.Components[a] = 0
    ]_vars

\* a result has been built after one analyzer failed and another scored
C7_Witness ==
  \E s \in Symbols, a \in Analyzers, b \in Analyzers :
    /\ call[s].pc = "save"
    /\ call[s].err[a]
    /\ call[s].result.Components[a] = 0
    /\ ~call[s].err[b]
    /\ call[s].result.Components[b] = MaxScore
    /\ call[s].result.SignalStrength # 0

\* C8 as stated: no fault inside an analyzer is fatal: whatever the storage
\* returns, the process never reaches a crash.
C8_NeverCrashes == ~crashed

\* C9 as stated: once the context is cancelled, no task of an instrument is
\* launched and no call launches its analyzers.
C9_CancelStopsLaunches ==
  [][ctxCancelled =>
       \A s \in Symbols :
         /\ taskpc[s] = "idle" => taskpc'[s] = "idle"
         /\ call[s].pc = "idle" => call'[s].pc = "idle"
    ]_vars

PastJoin(s) == call[s].pc \in {"combine", "price", "save", "returned"}

\* C11: in a call of generateSignalForSymbol, the composite is computed and
\* classified only after all five analyzer goroutines have finished: from
\* the join on, every analyzer has written its score and error variable and
\* none is running; and while an analyzer has not finished, the composite,
\* recommendation and result still have their initial values.
C11_CombineAfterInnerJoin ==
  \A s \in Symbols :
    /\ PastJoin(s) =>
         /\ \A a \in Analyzers : call[s].apc[a] = "done"
         /\ call[s].wg = 0
    /\ (\E a \in Analyzers : call[s].apc[a] # "done") =>
         /\ call[s].weightedSignal = 0
         /\ call[s].recommendation = ""
         /\ call[s].result = NoResult

\* the composite has been computed from five finished analyzers, one of
\* which failed and one of which scored
C11_Witness ==
  \E s \in Symbols, a \in Analyzers, b \in Analyzers :
    /\ call[s].pc = "price"
    /\ \A x \in Analyzers : call[s].apc[x] = "done"
    /\ call[s].err[a]
    /\ ~call[s].err[b]
    /\ call[s].recommendation # ""

Term(r, a) == r.Components[a] * cfg.weight[a]

\* C12: every SignalResult built has exactly the five component keys and
\* its composite is the sum of component * weight over them, neither clamped
\* nor re-normalised (with weights summing to more than 1 it leaves
\* [-100, 100], see the witness).
C12_CompositeIsWeightedSum ==
  \A s \in Symbols :
    call[s].result # NoResult =>
      LET r == call[s].result
      IN /\ DOMAIN r.Components =
              {"technical", "orderbook", "funding", "openInterest", "volumeDelta"}
         /\ r.SignalStrength =
              Term(r, "technical") + Term(r, "orderbook") + Term(r, "funding")
              + Term(r, "openInterest") + Term(r, "volumeDelta")

\* a result whose composite is above 100
C12_Witness ==
  \E s \in Symbols :
    /\ call[s].result # NoResult
    /\ call[s].result.SignalStrength > MaxScore * 100
    /\ \A a \in Analyzers : call[s].result.Components[a] \in -MaxScore..MaxScore

\* C13: in a cycle over distinct symbols, SaveSignal is called at most once
\* per instrument, with the one SignalResult the call built; a result is in the
\* result map only after it has been handed to the sink; and every result of
\* the returned map is the single one the sink received for its symbol.
C13_SavedOnceBeforeInsert ==
  \A s \in Symbols :
    /\ Len(saved[s]) <= 1
    /\ call[s].pc = "returned" => saved[s] = <<call[s].result>>
    /\ results[s] # NoResult => saved[s] = <<results[s]>>
    /\ (mainpc = "done" /\ s \in Tracked) => saved[s] = <<returned[1][s]>>

\* the sink has the result and the map does not have it yet
C13_Witness ==
  \E s \in Symbols :
    /\ taskpc[s] = "write"
    /\ results[s] = NoResult
    /\ saved[s] = <<call[s].result>>
    /\ call[s].result.Symbol = s

InRange(ret, lo, hi) == lo * ret.den <= ret.num /\ ret.num <= hi * ret.den

\* C14 as stated: whenever the funding analyzer returns a score, for a
\* non-empty rate history and any ExtremeThreshold, the score is in
\* [-100, 100].
C14_FundingScoreInRange ==
  (frame.fn = "funding.Analyze" /\ frame.pc = "ret" /\ ~frame.ret.err) =>
    InRange(frame.ret, -MaxScore, MaxScore)

\* C15 as stated: the open-interest analyzer returns an error whenever the
\* open-interest history has fewer than 2 points or the candle history has
\* fewer than 2 candles.
C15_OIShortHistoryIsError ==
  (frame.fn = "oianalysis.Analyze" /\ frame.pc = "ret"
     /\ (frame.arg.nOI < 2 \/ frame.arg.nCandles < 2)) =>
    frame.ret.err

AtRSI(points) ==
  frame.fn = "calculateRSI" /\ frame.pc = "ret" /\ frame.arg.lastRSI = points * RsiTicks

\* C16 as stated: the RSI-to-signal mapping has no jump: when the RSI moves
\* by one tick, anywhere in 0..100 and so across 30 and across 70, the
\* signal moves by no more than the steepest band does over one tick
\* (100/30 per RSI point).
C16_RSISignalContinuous ==
  (frame.fn = "calculateRSI" /\ frame.pc = "ret" /\ frame.arg.hasPrev) =>
    Abs((frame.ret.num * frame.arg.prev.den) - (frame.arg.prev.num * frame.ret.den))
      * 30 * RsiTicks
      <= 100 * frame.ret.den * frame.arg.prev.den

\* C17: the RSI signal is 100*(30-rsi)/30 below 30, -100*(rsi-70)/30 above
\* 70 and (50-rsi)*2 otherwise; rsi 20 gives 100/3, rsi 80 gives -100/3,
\* rsi 50 gives 0; and the signal is in [-100, 100] for every rsi of 0..100.
C17_RSISignalFormula ==
  (frame.fn = "calculateRSI" /\ frame.pc = "ret") =>
    LET r == frame.arg.lastRSI
        s == frame.ret
    IN /\ r < 30 * RsiTicks =>
            s.num * 30 * RsiTicks = 100 * ((30 * RsiTicks) - r) * s.den
       /\ r > 70 * RsiTicks =>
            s.num * 30 * RsiTicks = -100 * (r - (70 * RsiTicks)) * s.den
       /\ (r >= 30 * RsiTicks /\ r <= 70 * RsiTicks) =>
            s.num * RsiTicks = 2 * ((50 * RsiTicks) - r) * s.den
       /\ AtRSI(20) => 3 * s.num = 100 * s.den
       /\ AtRSI(80) => 3 * s.num = -100 * s.den
       /\ AtRSI(50) => s.num = 0
       /\ InRange(s, -MaxScore, MaxScore)

\* the signal of an RSI inside the neutral band, away from 50
C17_Witness ==
  /\ AtRSI(40)
  /\ frame.ret.num = 20 * frame.ret.den

RECURSIVE CenteredXY(_, _, _)
\* sum over values[1..i] of (n*x - sum x) * (n*y - sum y), x the index from 0
CenteredXY(values, n, i) ==
  IF i = 0 THEN 0
  ELSE CenteredXY(values, n, i - 1)
       + (((n * (i - 1)) - SumX(n)) * ((n * values[i]) - SumY(values, n)))

RECURSIVE CenteredXX(_, _)
CenteredXX(n, i) ==
  IF i = 0 THEN 0
  ELSE CenteredXX(n, i - 1) + (((n * (i - 1)) - SumX(n)) * ((n * (i - 1)) - SumX(n)))

RECURSIVE Total(_, _)
\* the sum of the first i amounts
Total(amounts, i) == IF i = 0 THEN 0 ELSE Total(amounts, i - 1) + amounts[i]

\* C19: with bid volume b and ask volume a (non-negative), the imbalance
\* sub-signal is (b - a)/(b + a)*100 when the absolute value of that is at
\* least ImbalanceThreshold, 0 when it is strictly below, and 0 when b and a
\* are both 0; it is 40 for b = 70, a = 30, threshold 5; and it is always in
\* [-100, 100].
C19_ImbalanceFormula ==
  (frame.fn = "calculateImbalance" /\ frame.pc = "ret") =>
    LET b == Total(frame.arg.bids, Len(frame.arg.bids))
        a == Total(frame.arg.asks, Len(frame.arg.asks))
        x == frame.arg.ImbalanceThreshold
        r == frame.ret
    IN /\ r.den > 0
       /\ (b = 0 /\ a = 0) => r.num = 0
       /\ (b + a > 0 /\ 100 * Abs(b - a) >= x * (b + a)) =>
            r.num * (b + a) = 100 * (b - a) * r.den
       /\ (b + a > 0 /\ 100 * Abs(b - a) < x * (b + a)) => r.num = 0
       /\ (b = 70 /\ a = 30 /\ x = 5) => r.num = 40 * r.den
       /\ InRange(r, -MaxScore, MaxScore)

\* bids of 30 + 40, asks of 30, threshold 5: the sub-signal is 40
C19_Witness ==
  /\ frame.fn = "calculateImbalance"
  /\ frame.pc = "ret"
  /\ frame.arg.bids = <<30, 40>>
  /\ frame.arg.asks = <<30>>
  /\ frame.arg.ImbalanceThreshold = 5
  /\ frame.ret.num = 40 * frame.ret.den

\* C20: the ATR sub-signal is in [-20, 20] for every volatility percentage
\* (of a positive close): -20 above 5%, +20 below 0.5%, and strictly
\* between the two for the percentages from 0.5% to 5%; whatever the close,
\* it is in [-20, 20].
C20_ATRSignalBounded ==
  (frame.fn = "calculateATR" /\ frame.pc = "ret") =>
    LET v == frame.arg.lastATR
        c == frame.arg.lastClose
    IN /\ frame.ret \in -20..20
       /\ (c > 0 /\ v * 100 > 5 * c) => frame.ret = -20
       /\ (c > 0 /\ v * 200 < c) => frame.ret = 20
       /\ (c > 0 /\ v * 200 >= c /\ v * 100 <= 5 * c) => frame.ret \in -19..19

\* a volatility of 4%: the sub-signal is -10
C20_Witness ==
  /\ frame.fn = "calculateATR"
  /\ frame.pc = "ret"
  /\ frame.arg.lastClose > 0
  /\ frame.arg.lastATR * 100 = 4 * frame.arg.lastClose
  /\ frame.ret = -10

AllParsed(rates) == \A i \in 1..Len(rates) : rates[i].ok

\* newest first: every newer rate is greater than the one before it in time
RisingOverTime(rates) == \A i \in 1..(Len(rates) - 1) : rates[i].v > rates[i + 1].v

FallingOverTime(rates) == \A i \in 1..(Len(rates) - 1) : rates[i].v < rates[i + 1].v

\* C21 as stated: for a newest-first history of at least 3 parseable rates,
\* strictly rising over time, the trend sub-signal is negative like the
\* change sub-signal; strictly falling over time, it is positive.
C21_TrendSignFollowsTime ==
  (frame.fn = "funding.trendAndChange" /\ frame.pc = "ret"
     /\ Len(frame.arg.rates) >= 3 /\ AllParsed(frame.arg.rates)) =>
    /\ RisingOverTime(frame.arg.rates) =>
         (frame.ret.trend.num < 0 /\ frame.ret.change < 0)
    /\ FallingOverTime(frame.arg.rates) => frame.ret.trend.num > 0

\* C22 as stated: with the candles delivered newest first, the close the
\* technical analyzer takes as the latest price is the close of the most
\* recent candle, the one attached to the SignalResult as current price.
C22_LatestCloseIsNewest ==
  (frame.fn = "technical.lastClose" /\ frame.pc = "ret" /\ ~frame.ret.err) =>
    /\ frame.ret.lastClose = frame.arg.closes[1]
    /\ frame.ret.lastClose = frame.ret.currentPrice

\* C23 as stated: when every storage call returns, GenerateSignals
\* eventually returns, under every scheduling of the tasks.
C23_CycleReturns == <>(mainpc = "done")


(* C24: during a cycle the analyzers and the price lookup only read the
   storage, the only write is SaveSignal, and the stored candles, order
   books, funding rates and open interest are the ones the cycle found. *)
StorageReads ==
  {"GetCandles", "GetLatestCandles", "GetLatestOrderBook", "GetFundingRates",
   "GetOpenInterest"}
C24_CycleOnlyReadsMarketData ==
  /\ storage.market = NewStorage.market
  /\ storage.calls \subseteq StorageReads \cup {"SaveSignal"}
  /\ (\A s \in Symbols : call[s].pc \in {"idle", "go", "wait", "combine", "price"})
       => storage.calls \subseteq StorageReads
C24_Witness ==
  /\ "SaveSignal" \in storage.calls
  /\ "GetLatestCandles" \in storage.calls
  /\ UNION {AnalyzerCalls(a) : a \in Analyzers} \subseteq storage.calls
  /\ storage.market = NewStorage.market


Bullishness(rec) ==
  CASE rec = "STRONG_SELL" -> 1
    [] rec = "SELL" -> 2
    [] rec = "NEUTRAL" -> 3
    [] rec = "BUY" -> 4
    [] rec = "STRONG_BUY" -> 5

ThresholdsOrdered(c) ==
  c.StrongSell <= c.Sell /\ c.Sell < c.Buy /\ c.Buy <= c.StrongBuy

\* C25: with StrongSell <= Sell < Buy <= StrongBuy the classification is
\* monotone in the composite: a composite no larger than the classified one
\* is classified no more bullish and one no smaller no less bullish, in the
\* order strong sell < sell < neutral < buy < strong buy; and the position
\* size is 0.0 exactly when the recommendation is neutral.
C25_ClassificationMonotone ==
  \A s \in Symbols :
    (call[s].pc = "price" /\ ThresholdsOrdered(cfg)) =>
      /\ \A w \in Composites :
           LET other == Bullishness(Classify(w, cfg).recommendation)
               this == Bullishness(call[s].recommendation)
           IN /\ w <= call[s].weightedSignal => other <= this
              /\ w >= call[s].weightedSignal => other >= this
      /\ call[s].positionSize = 0 <=> call[s].recommendation = "NEUTRAL"

\* a sell between a strong sell and a neutral, thresholds in order
C25_Witness ==
  \E s \in Symbols :
    /\ call[s].pc = "price"
    /\ ThresholdsOrdered(cfg)
    /\ cfg.StrongSell < cfg.Sell
    /\ call[s].recommendation = "SELL"
    /\ call[s].positionSize = 7
    /\ \E lo, hi \in Composites :
         /\ lo < call[s].weightedSignal /\ call[s].weightedSignal < hi
         /\ Classify(lo, cfg).recommendation = "STRONG_SELL"
         /\ Classify(hi, cfg).recommendation = "NEUTRAL"


\* the two newest readings parse, the previous one is not 0, and the percent
\* change times 1 is `sign` times at least the threshold
ChangeAtLeast(arg, sign) ==
  /\ Len(arg.data) >= 2
  /\ arg.data[1].ok /\ arg.data[2].ok
  /\ arg.data[2].v # 0
  /\ sign * (arg.data[1].v - arg.data[2].v) * 100 >= arg.changeThreshold * arg.data[2].v

C27_LoopAsClaimed ==
  [][/\ loop'.inflight > loop.inflight =>
          /\ loop.inflight = 0
          /\ loop.handed
          /\ ~loop.cancelled
     /\ ui'.signals # ui.signals => (~loop.err /\ ui'.signals = loop.cycle)]_vars

\* C30 as stated: the write of ui.signals is under the write lock, every read
\* of it (View's, and Update's for the "down" key) is under a read lock, and
\* no read is pending together with the write.
C30_SignalsUnderMutex ==
  /\ loop.pc = "write" => ui.writer
  /\ ui.tea = "view" => ui.readers > 0
  /\ ui.tea = "down" => ui.readers > 0
  /\ ~(loop.pc = "write" /\ ui.tea \in {"view", "down"})

\* C28 as stated: once Start has subscribed the symbols and Stop has been
\* called, every one of the subscriptions has been told to stop, whatever
\* the number of symbols; and a Stop before Start leaves the collector with
\* no subscription and no stop channel.
C28_StopSignalsEverySubscription ==
  /\ (candles.pc = "started" /\ candles.stopped) =>
       \A s \in 1..candles.n : candles.subs[s] = "stopSignalled"
  /\ candles.pc = "new" =>
       /\ candles.stopC = 0
       /\ \A s \in Symbols : candles.subs[s] = "none"

\* C29: after Stop on a started funding-rate or open-interest collector the
\* polling goroutine begins at most one further round and eventually
\* returns (or the process has panicked on a repeated Stop); a Stop on a
\* collector that was not started changes nothing but the count of calls.
C29_PollerStopsAfterStop ==
  /\ [](poller.pc # "" => poller.further <= 1)
  /\ ((poller.pc # "" /\ poller.startedStop)
        ~> (poller.pc = "returned" \/ poller.panicked))
  /\ [][(poller.pc # "" /\ poller.ticker = "nil" /\ poller'.stops > poller.stops)
          => poller' = [poller EXCEPT !.stops = @ + 1]]_vars

\* a stopped collector whose goroutine ran the one stale round and returned
C29_Witness ==
  /\ poller.pc = "returned"
  /\ poller.startedStop
  /\ poller.further = 1
  /\ poller.ticker = "stopped"
  /\ ~poller.panicked

====
